---- MODULE Spec2Model ----
(***************************************************************************)
(* A model of saw: the pipeline engine (src/src/program.rs) with the       *)
(* pipeline units, their run/reset operations and Program::run, which      *)
(* folds one input line through the units; the command parser              *)
(* (src/src/parse.rs), which compiles the tokens of the command line into  *)
(* a pipeline; and main (src/src/main.rs), which parses and then runs the  *)
(* input lines one by one.  Lines and tokens are TLA+ strings.  A Regex is *)
(* modelled for the patterns the repository's tests use: a literal, with   *)
(* or without the ^ anchor.                                                *)
(***************************************************************************)
EXTENDS Integers, Sequences, FiniteSets, TLC

\* ------------------------------------------------------------------ bounds

\* longest pipeline Init compiles
MaxUnits == 3

\* number of input lines read from a free input stream
MaxLines == 3

\* number of pieces the prog argument of SpecMain is put together from
MaxCommands == 2

\* ------------------------------------------------------------------ state

VARIABLES
    program,   \* Program.0: the units, each with its state
    hist,      \* the input lines read so far, in order
    results,   \* what Program::run returned for each of them
    trace,     \* per Program::run call, the reset and run calls it made
    commands,  \* main's commands: the tokens of the prog argument
    pc,        \* where main is: "parse" before parse_args, "run" in the loop
               \* over the input lines, "failed" once it returned the error,
               \* "panicked" once a panic has ended the process
    stdout,    \* the lines printed so far
    error,     \* the message chain main returned, <<>> when it returned none
    overflow_checks
               \* the build's overflow-checks setting: on in cargo's dev
               \* profile, off in its release profile

vars ==
    <<program, hist, results, trace, commands, pc, stdout, error,
      overflow_checks>>

\* ------------------------------------------------------------------ values

\* Option<T>
None == [some |-> FALSE]

Some(v) == [some |-> TRUE, val |-> v]

\* enum Output
Resume(s) == [tag |-> "Resume", val |-> s]

ResetAndResume(s) == [tag |-> "ResetAndResume", val |-> s]

Return(o) == [tag |-> "Return", opt |-> o]

\* a run that panics returns no Output: the panic unwinds through
\* Program::run and main and ends the process
Panic == [tag |-> "Panic"]

\* Output::as_opt
as_opt(out) ==
    CASE out.tag = "Resume" -> Some(out.val)
      [] out.tag = "ResetAndResume" -> Some(out.val)
      [] out.tag = "Return" -> out.opt

\* ------------------------------------------------------------------ regex

\* Regex::new for the pattern "lit" (anchored = FALSE) or "^lit" (TRUE);
\* lit is a non-empty literal
Regex(anchored, lit) == [anchored |-> anchored, lit |-> lit]

\* the literal of regex r occurs in s at position i (1-based)
MatchAt(r, s, i) ==
    /\ i >= 1
    /\ i + Len(r.lit) - 1 <= Len(s)
    /\ SubSeq(s, i, i + Len(r.lit) - 1) = r.lit

\* positions at which regex r can match in s
MatchPositions(r, s) ==
    {i \in (IF r.anchored THEN {1} ELSE 1..Len(s)) : MatchAt(r, s, i)}

\* Regex::is_match
is_match(r, s) == MatchPositions(r, s) # {}

\* leftmost match position at or after position from, 0 when there is none
FirstMatch(r, s, from) ==
    LET later == {i \in MatchPositions(r, s) : i >= from}
    IN IF later = {} THEN 0
       ELSE CHOOSE i \in later : \A j \in later : i <= j

\* Regex::replace: the leftmost match replaced by rep (a template without $)
replace(r, s, rep) ==
    LET i == FirstMatch(r, s, 1)
    IN IF i = 0 THEN s
       ELSE SubSeq(s, 1, i - 1) \o rep \o SubSeq(s, i + Len(r.lit), Len(s))

RECURSIVE ReplaceFrom(_, _, _, _)
ReplaceFrom(r, s, rep, from) ==
    LET i == FirstMatch(r, s, from)
    IN IF i = 0 THEN SubSeq(s, from, Len(s))
       ELSE SubSeq(s, from, i - 1) \o rep \o ReplaceFrom(r, s, rep, i + Len(r.lit))

\* Regex::replace_all: every non-overlapping match replaced, left to right
replace_all(r, s, rep) == ReplaceFrom(r, s, rep, 1)

\* ------------------------------------------------------------------ numbers

Digits == "0123456789"

\* A u32 is kept as its 32 bits, read the way TLC reads 32 bits: a value
\* below 2^31 is itself, a value v from 2^31 on is the negative v - 2^32.

\* u32::MAX, 2^32 - 1
U32_MAX == -1

\* u32 n + 1 for n < u32::MAX; 2^31 - 1 is followed by 2^31
AddOne(n) == IF n = 2147483647 THEN -2147483647 - 1 ELSE n + 1

\* u32::to_string / the {} of format!: decimal digits, no padding; for
\* v = n + 2^32 from 2^31 on, v \div 10 is 429496729 + (n + 6) \div 10 and
\* v % 10 is (n + 6) % 10
RECURSIVE to_string(_)
to_string(n) ==
    IF n < 0
    THEN to_string(429496729 + ((n + 6) \div 10))
         \o SubSeq(Digits, ((n + 6) % 10) + 1, ((n + 6) % 10) + 1)
    ELSE IF n < 10 THEN SubSeq(Digits, n + 1, n + 1)
    ELSE to_string(n \div 10) \o SubSeq(Digits, (n % 10) + 1, (n % 10) + 1)

\* ------------------------------------------------------------------ ranges

\* OpenRange::new
OpenRange(lower_bound, upper_bound) ==
    [lower_bound |-> lower_bound, upper_bound |-> upper_bound]

\* OpenRange::contains
OpenRangeContains(range, item) ==
    /\ (IF range.lower_bound.some THEN range.lower_bound.val <= item ELSE TRUE)
    /\ (IF range.upper_bound.some THEN item <= range.upper_bound.val ELSE TRUE)

\* ------------------------------------------------------------------ fields

\* enum FieldId
FieldInt(i) == [tag |-> "Int", i |-> i]

FromLast(i) == [tag |-> "FromLast", i |-> i]

\* FieldId::to_usize with FromLast(1) one before the last field
to_usizeOffByOne(id, last) ==
    IF id.tag = "Int" THEN id.i
    ELSE IF last >= id.i THEN last - id.i ELSE 0

\* FieldId::to_usize that subtracts without testing i against last + 1
to_usizeNoGuard(id, last) ==
    IF id.tag = "Int" THEN id.i ELSE last + 1 - id.i

\* FieldId::to_usize
to_usize(id, last) ==
    IF id.tag = "Int" THEN id.i
    ELSE IF last + 1 >= id.i THEN last + 1 - id.i ELSE 0

\* OpenRange::map with |id| id.to_usize(last)
OpenRangeMap(range, last) ==
    [lower_bound |-> IF range.lower_bound.some
                     THEN Some(to_usize(range.lower_bound.val, last)) ELSE None,
     upper_bound |-> IF range.upper_bound.some
                     THEN Some(to_usize(range.upper_bound.val, last)) ELSE None]

\* enum FieldsAtom
FieldsSingle(id) == [tag |-> "Single", id |-> id]

FieldsRange(range) == [tag |-> "Range", range |-> range]

\* FieldsAtom::contains whose ranges hold nothing once a bound resolves to 0
FieldsAtomContainsZeroNothing(fa, n, last) ==
    IF fa.tag = "Single" THEN n = to_usize(fa.id, last)
    ELSE /\ OpenRangeContains(OpenRangeMap(fa.range, last), n)
         /\ OpenRangeMap(fa.range, last).lower_bound # Some(0)
         /\ OpenRangeMap(fa.range, last).upper_bound # Some(0)

\* FieldsAtom::contains
FieldsAtomContains(fa, n, last) ==
    IF fa.tag = "Single" THEN n = to_usize(fa.id, last)
    ELSE OpenRangeContains(OpenRangeMap(fa.range, last), n)

\* Fields::contains
FieldsContains(unit, n, last) ==
    \E k \in 1..Len(unit.atoms) : FieldsAtomContains(unit.atoms[k], n, last)

\* str::split(' '): the fragments between single spaces, empty ones included
RECURSIVE split(_, _, _)
split(s, i, cur) ==
    IF i > Len(s) THEN <<cur>>
    ELSE IF SubSeq(s, i, i) = " " THEN <<cur>> \o split(s, i + 1, "")
    ELSE split(s, i + 1, cur \o SubSeq(s, i, i))

\* Iterator::filter, keeping the elements of seq at the positions in keep
RECURSIVE filter(_, _, _)
filter(seq, keep, i) ==
    IF i > Len(seq) THEN <<>>
    ELSE (IF i \in keep THEN <<seq[i]>> ELSE <<>>) \o filter(seq, keep, i + 1)

\* Iterator::intersperse(sep) followed by collect::<String>()
RECURSIVE intersperse(_, _)
intersperse(seq, sep) ==
    IF seq = <<>> THEN ""
    ELSE IF Len(seq) = 1 THEN seq[1]
    ELSE seq[1] \o sep \o intersperse(Tail(seq), sep)

\* ------------------------------------------------------------------ lines

\* enum LinesAtom
LinesSingle(n) == [tag |-> "Single", n |-> n]

LinesRange(range) == [tag |-> "Range", range |-> range]

\* LinesAtom::contains
LinesAtomContains(la, l) ==
    IF la.tag = "Single" THEN l = la.n ELSE OpenRangeContains(la.range, l)

\* ------------------------------------------------------------------ units

\* Match::new
NewMatch(regex) == [kind |-> "Match", regex |-> regex]

\* Filter::new
NewFilter(regex) == [kind |-> "Filter", regex |-> regex]

\* Fields::new
NewFields(source) == [kind |-> "Fields", atoms |-> source]

\* Lines::new
NewLines(lines) == [kind |-> "Lines", lines |-> lines, current_line |-> 0]

\* FilterRange::new
NewFilterRange(start, end) ==
    [kind |-> "FilterRange", start |-> start, end |-> end, state |-> "Outside"]

\* MatchRange::new
NewMatchRange(start, end) ==
    [kind |-> "MatchRange", start |-> start, end |-> end, state |-> "Outside"]

\* Enumeration::new
NewEnumeration == [kind |-> "Enumeration", current_line |-> 0]

\* Sub::new
NewSub(regex, replacement) ==
    [kind |-> "Sub", regex |-> regex, replacement |-> replacement]

\* Gsub::new
NewGsub(regex, replacement) ==
    [kind |-> "Gsub", regex |-> regex, replacement |-> replacement]

\* the pair a unit's run yields: the unit after the call and its Output
Ran(atom, out) == [atom |-> atom, out |-> out]

\* impl ProgramAtom for Match
MatchRun(self, arg) ==
    IF is_match(self.regex, arg) THEN Ran(self, Resume(arg))
    ELSE Ran(self, Return(Some(arg)))

\* Filter::run that keeps the lines it does not match
FilterRunKeeps(self, arg) ==
    IF is_match(self.regex, arg) THEN Ran(self, Resume(arg))
    ELSE Ran(self, Return(Some(arg)))

\* impl ProgramAtom for Filter
FilterRun(self, arg) ==
    IF is_match(self.regex, arg) THEN Ran(self, Resume(arg))
    ELSE Ran(self, Return(None))

\* impl ProgramAtom for Fields
FieldsRun(self, arg) ==
    LET frags == split(arg, 1, "")
        fields == filter(frags, {k \in 1..Len(frags) : frags[k] # ""}, 1)
        len == Len(fields)
        kept == filter(fields, {p \in 1..len : FieldsContains(self, p, len)}, 1)
    IN Ran(self, Resume(intersperse(kept, " ")))

\* Lines::run that tests the counter before incrementing it
LinesRunZeroBased(self, arg) ==
    LET next == [self EXCEPT !.current_line = self.current_line + 1]
    IN IF \E k \in 1..Len(self.lines) :
              LinesAtomContains(self.lines[k], self.current_line)
       THEN Ran(next, Resume(arg))
       ELSE Ran(next, Return(None))

\* impl ProgramAtom for Lines: run
\* (current_line is a usize, kept here as an unbounded number: on a 64-bit
\* target its limit of 2^64 - 1 lines is out of reach of any input)
LinesRun(self, arg) ==
    LET next == [self EXCEPT !.current_line = self.current_line + 1]
    IN IF \E k \in 1..Len(next.lines) :
              LinesAtomContains(next.lines[k], next.current_line)
       THEN Ran(next, Resume(arg))
       ELSE Ran(next, Return(None))

\* impl ProgramAtom for Lines: reset
LinesReset(self) == [self EXCEPT !.current_line = 0]

\* FilterRange::run that opens a block without signalling a reset
FilterRangeRunPlainResume(self, arg) ==
    IF self.state = "Outside"
    THEN IF is_match(self.start, arg)
         THEN Ran([self EXCEPT !.state = "Inside"], Resume(arg))
         ELSE Ran(self, Return(None))
    ELSE IF is_match(self.end, arg)
         THEN Ran([self EXCEPT !.state = "Outside"], Resume(arg))
         ELSE Ran(self, Resume(arg))

\* FilterRange::run with the start line tested against the end pattern too
FilterRangeRunTestsEnd(self, arg) ==
    IF self.state = "Outside"
    THEN IF is_match(self.start, arg)
         THEN Ran([self EXCEPT !.state = IF is_match(self.end, arg)
                                         THEN "Outside" ELSE "Inside"],
                  ResetAndResume(arg))
         ELSE Ran(self, Return(None))
    ELSE IF is_match(self.end, arg)
         THEN Ran([self EXCEPT !.state = "Outside"], Resume(arg))
         ELSE Ran(self, Resume(arg))

\* impl ProgramAtom for FilterRange: run
FilterRangeRun(self, arg) ==
    IF self.state = "Outside"
    THEN IF is_match(self.start, arg)
         THEN Ran([self EXCEPT !.state = "Inside"], ResetAndResume(arg))
         ELSE Ran(self, Return(None))
    ELSE IF is_match(self.end, arg)
         THEN Ran([self EXCEPT !.state = "Outside"], Resume(arg))
         ELSE Ran(self, Resume(arg))

\* impl ProgramAtom for FilterRange: reset
FilterRangeReset(self) == [self EXCEPT !.state = "Outside"]

\* MatchRange::run that signals a reset on every start match, also Inside
MatchRangeRunRestarts(self, arg) ==
    IF is_match(self.start, arg)
    THEN Ran([self EXCEPT !.state = "Inside"], ResetAndResume(arg))
    ELSE IF self.state = "Outside" THEN Ran(self, Return(Some(arg)))
    ELSE IF is_match(self.end, arg)
         THEN Ran([self EXCEPT !.state = "Outside"], Resume(arg))
         ELSE Ran(self, Resume(arg))

\* MatchRange::run with the end line short-circuited
MatchRangeRunEndExclusive(self, arg) ==
    IF self.state = "Outside"
    THEN IF is_match(self.start, arg)
         THEN Ran([self EXCEPT !.state = "Inside"], ResetAndResume(arg))
         ELSE Ran(self, Return(Some(arg)))
    ELSE IF is_match(self.end, arg)
         THEN Ran([self EXCEPT !.state = "Outside"], Return(Some(arg)))
         ELSE Ran(self, Resume(arg))

\* impl ProgramAtom for MatchRange: run
MatchRangeRun(self, arg) ==
    IF self.state = "Outside"
    THEN IF is_match(self.start, arg)
         THEN Ran([self EXCEPT !.state = "Inside"], ResetAndResume(arg))
         ELSE Ran(self, Return(Some(arg)))
    ELSE IF is_match(self.end, arg)
         THEN Ran([self EXCEPT !.state = "Outside"], Resume(arg))
         ELSE Ran(self, Resume(arg))

\* impl ProgramAtom for MatchRange: reset
MatchRangeReset(self) == [self EXCEPT !.state = "Outside"]

\* impl ProgramAtom for Enumeration: run; self.current_line += 1 at u32::MAX
\* panics with 'attempt to add with overflow' in a build with overflow
\* checks and wraps to 0 in a build without
EnumerationRun(self, arg) ==
    IF self.current_line = U32_MAX /\ overflow_checks
    THEN Ran(self, Panic)
    ELSE LET next == [self EXCEPT !.current_line =
                         IF @ = U32_MAX THEN 0 ELSE AddOne(@)]
         IN Ran(next, Resume(to_string(next.current_line) \o " " \o arg))

\* Enumeration::reset that keeps the counter
EnumerationResetKeeps(self) == self

\* impl ProgramAtom for Enumeration: reset
EnumerationReset(self) == [self EXCEPT !.current_line = 0]

\* impl ProgramAtom for Sub
SubRun(self, arg) == Ran(self, Resume(replace(self.regex, arg, self.replacement)))

\* impl ProgramAtom for Gsub
GsubRun(self, arg) ==
    Ran(self, Resume(replace_all(self.regex, arg, self.replacement)))

\* enum_dispatch of ProgramAtom::run over enum Atom
AtomRun(atom, arg) ==
    CASE atom.kind = "Enumeration" -> EnumerationRun(atom, arg)
      [] atom.kind = "Filter" -> FilterRun(atom, arg)
      [] atom.kind = "Lines" -> LinesRun(atom, arg)
      [] atom.kind = "FilterRange" -> FilterRangeRun(atom, arg)
      [] atom.kind = "Fields" -> FieldsRun(atom, arg)
      [] atom.kind = "Gsub" -> GsubRun(atom, arg)
      [] atom.kind = "Match" -> MatchRun(atom, arg)
      [] atom.kind = "MatchRange" -> MatchRangeRun(atom, arg)
      [] atom.kind = "Sub" -> SubRun(atom, arg)

\* enum_dispatch of ProgramAtom::reset: the trait's default body is empty
AtomReset(atom) ==
    CASE atom.kind = "Enumeration" -> EnumerationReset(atom)
      [] atom.kind = "Lines" -> LinesReset(atom)
      [] atom.kind = "FilterRange" -> FilterRangeReset(atom)
      [] atom.kind = "MatchRange" -> MatchRangeReset(atom)
      [] OTHER -> atom

\* ------------------------------------------------------------------ engine

\* what Program::run did to the unit at position pos: one record per call of
\* the unit's reset or run, with the unit before (pre) and after (post) it
ResetEvent(pos, pre, post) == [op |-> "reset", pos |-> pos, pre |-> pre, post |-> post]

RunEvent(pos, pre, arg, r) ==
    [op |-> "run", pos |-> pos, pre |-> pre, post |-> r.atom, arg |-> arg, ret |-> r.out]

\* FoldStep with Return(Some(s)) treated like Resume(s): no short-circuit
FoldStepNoShortCircuit(acc, i) ==
    LET a0 == acc.atoms[i]
        a1 == IF acc.reset THEN AtomReset(a0) ELSE a0
        l1 == IF acc.reset THEN Append(acc.log, ResetEvent(i, a0, a1)) ELSE acc.log
        arg == IF acc.out.tag = "Return" THEN acc.out.opt.val ELSE acc.out.val
    IN IF acc.out.tag = "Return" /\ ~acc.out.opt.some
       THEN [atoms |-> [acc.atoms EXCEPT ![i] = a1], out |-> acc.out,
             reset |-> acc.reset, log |-> l1]
       ELSE LET a2 == IF acc.out.tag = "ResetAndResume" THEN AtomReset(a1) ELSE a1
                l2 == IF acc.out.tag = "ResetAndResume"
                      THEN Append(l1, ResetEvent(i, a1, a2)) ELSE l1
                r == AtomRun(a2, arg)
            IN [atoms |-> [acc.atoms EXCEPT ![i] = r.atom], out |-> r.out,
                reset |-> acc.reset \/ acc.out.tag = "ResetAndResume",
                log |-> Append(l2, RunEvent(i, a2, arg, r))]

\* FoldStep with a ResetAndResume that sets the flag but leaves the unit it
\* is handed to as it is
FoldStepResetLate(acc, i) ==
    LET a0 == acc.atoms[i]
        a1 == IF acc.reset THEN AtomReset(a0) ELSE a0
        l1 == IF acc.reset THEN Append(acc.log, ResetEvent(i, a0, a1)) ELSE acc.log
    IN IF acc.out.tag = "Return"
       THEN [atoms |-> [acc.atoms EXCEPT ![i] = a1], out |-> acc.out,
             reset |-> acc.reset, log |-> l1]
       ELSE LET r == AtomRun(a1, acc.out.val)
            IN [atoms |-> [acc.atoms EXCEPT ![i] = r.atom], out |-> r.out,
                reset |-> acc.reset \/ acc.out.tag = "ResetAndResume",
                log |-> Append(l1, RunEvent(i, a1, acc.out.val, r))]

\* FoldStep with the pending reset applied only to the units that are run
FoldStepNoResetOnSkip(acc, i) ==
    LET a0 == acc.atoms[i]
        a1 == IF acc.reset THEN AtomReset(a0) ELSE a0
        l1 == IF acc.reset THEN Append(acc.log, ResetEvent(i, a0, a1)) ELSE acc.log
    IN CASE acc.out.tag = "Resume" ->
              LET r == AtomRun(a1, acc.out.val)
              IN [atoms |-> [acc.atoms EXCEPT ![i] = r.atom], out |-> r.out,
                  reset |-> acc.reset,
                  log |-> Append(l1, RunEvent(i, a1, acc.out.val, r))]
         [] acc.out.tag = "ResetAndResume" ->
              LET a2 == AtomReset(a1)
                  r == AtomRun(a2, acc.out.val)
              IN [atoms |-> [acc.atoms EXCEPT ![i] = r.atom], out |-> r.out,
                  reset |-> TRUE,
                  log |-> Append(Append(l1, ResetEvent(i, a1, a2)),
                                 RunEvent(i, a2, acc.out.val, r))]
         [] acc.out.tag = "Return" -> acc

\* FoldStep that resets a unit again right after a run of it that returned
\* ResetAndResume
FoldStepResetsEmitter(acc, i) ==
    LET a0 == acc.atoms[i]
        a1 == IF acc.reset THEN AtomReset(a0) ELSE a0
        l1 == IF acc.reset THEN Append(acc.log, ResetEvent(i, a0, a1)) ELSE acc.log
    IN IF acc.out.tag = "Return"
       THEN [atoms |-> [acc.atoms EXCEPT ![i] = a1], out |-> acc.out,
             reset |-> acc.reset, log |-> l1]
       ELSE LET a2 == IF acc.out.tag = "ResetAndResume" THEN AtomReset(a1) ELSE a1
                l2 == IF acc.out.tag = "ResetAndResume"
                      THEN Append(l1, ResetEvent(i, a1, a2)) ELSE l1
                r == AtomRun(a2, acc.out.val)
                l3 == Append(l2, RunEvent(i, a2, acc.out.val, r))
                again == r.out.tag = "ResetAndResume"
            IN [atoms |-> [acc.atoms EXCEPT
                             ![i] = IF again THEN AtomReset(r.atom) ELSE r.atom],
                out |-> r.out,
                reset |-> acc.reset \/ acc.out.tag = "ResetAndResume",
                log |-> IF again
                        THEN Append(l3, ResetEvent(i, r.atom, AtomReset(r.atom)))
                        ELSE l3]

\* FoldStep with the pending reset applied after the unit's run
FoldStepResetAfterRun(acc, i) ==
    LET a0 == acc.atoms[i]
    IN CASE acc.out.tag = "Resume" ->
              LET r == AtomRun(a0, acc.out.val)
                  a2 == IF acc.reset THEN AtomReset(r.atom) ELSE r.atom
                  l1 == Append(acc.log, RunEvent(i, a0, acc.out.val, r))
              IN [atoms |-> [acc.atoms EXCEPT ![i] = a2], out |-> r.out,
                  reset |-> acc.reset,
                  log |-> IF acc.reset THEN Append(l1, ResetEvent(i, r.atom, a2))
                          ELSE l1]
         [] acc.out.tag = "ResetAndResume" ->
              LET a1 == AtomReset(a0)
                  r == AtomRun(a1, acc.out.val)
              IN [atoms |-> [acc.atoms EXCEPT ![i] = r.atom], out |-> r.out,
                  reset |-> TRUE,
                  log |-> Append(Append(acc.log, ResetEvent(i, a0, a1)),
                                 RunEvent(i, a1, acc.out.val, r))]
         [] acc.out.tag = "Return" ->
              LET a1 == IF acc.reset THEN AtomReset(a0) ELSE a0
              IN [atoms |-> [acc.atoms EXCEPT ![i] = a1], out |-> acc.out,
                  reset |-> acc.reset,
                  log |-> IF acc.reset THEN Append(acc.log, ResetEvent(i, a0, a1))
                          ELSE acc.log]

\* FoldStep that resets every unit it skips, whatever the flag
FoldStepResetsSkipped(acc, i) ==
    LET a0 == acc.atoms[i]
        a1 == IF acc.reset THEN AtomReset(a0) ELSE a0
        l1 == IF acc.reset THEN Append(acc.log, ResetEvent(i, a0, a1)) ELSE acc.log
    IN IF acc.out.tag = "Return"
       THEN [atoms |-> [acc.atoms EXCEPT ![i] = AtomReset(a0)], out |-> acc.out,
             reset |-> acc.reset, log |-> l1]
       ELSE LET a2 == IF acc.out.tag = "ResetAndResume" THEN AtomReset(a1) ELSE a1
                l2 == IF acc.out.tag = "ResetAndResume"
                      THEN Append(l1, ResetEvent(i, a1, a2)) ELSE l1
                r == AtomRun(a2, acc.out.val)
            IN [atoms |-> [acc.atoms EXCEPT ![i] = r.atom], out |-> r.out,
                reset |-> acc.reset \/ acc.out.tag = "ResetAndResume",
                log |-> Append(l2, RunEvent(i, a2, acc.out.val, r))]

\* the closure Program::run folds over the units: acc holds the units, the
\* running Output, the closure's captured reset flag and the calls made so far
FoldStep(acc, i) ==
    LET a0 == acc.atoms[i]
        a1 == IF acc.reset THEN AtomReset(a0) ELSE a0
        l1 == IF acc.reset THEN Append(acc.log, ResetEvent(i, a0, a1)) ELSE acc.log
    IN CASE acc.out.tag = "Panic" -> acc
         [] acc.out.tag = "Resume" ->
              LET r == AtomRun(a1, acc.out.val)
              IN [atoms |-> [acc.atoms EXCEPT ![i] = r.atom],
                  out |-> r.out,
                  reset |-> acc.reset,
                  log |-> Append(l1, RunEvent(i, a1, acc.out.val, r))]
         [] acc.out.tag = "ResetAndResume" ->
              LET a2 == AtomReset(a1)
                  r == AtomRun(a2, acc.out.val)
              IN [atoms |-> [acc.atoms EXCEPT ![i] = r.atom],
                  out |-> r.out,
                  reset |-> TRUE,
                  log |-> Append(Append(l1, ResetEvent(i, a1, a2)),
                                 RunEvent(i, a2, acc.out.val, r))]
         [] acc.out.tag = "Return" ->
              [atoms |-> [acc.atoms EXCEPT ![i] = a1],
               out |-> acc.out,
               reset |-> acc.reset,
               log |-> l1]

\* Iterator::fold over self.0.iter_mut(), from position i on
RECURSIVE Fold(_, _)
Fold(acc, i) ==
    IF i > Len(acc.atoms) THEN acc ELSE Fold(FoldStep(acc, i), i + 1)

\* FoldInit with the reset flag starting true
FoldInitPending(atoms, arg) ==
    [atoms |-> atoms, out |-> Resume(arg), reset |-> TRUE, log |-> <<>>]

\* the accumulator Program::run starts from: let mut reset = false and
\* Output::Resume(arg)
FoldInit(atoms, arg) ==
    [atoms |-> atoms, out |-> Resume(arg), reset |-> FALSE, log |-> <<>>]

\* Program::run on the units atoms: the units afterwards, the returned
\* Option<String> and the calls made
ProgramRun(atoms, arg) ==
    LET acc == Fold(FoldInit(atoms, arg), 1)
    IN [atoms |-> acc.atoms,
        panicked |-> acc.out.tag = "Panic",
        res |-> IF acc.out.tag = "Panic" THEN None ELSE as_opt(acc.out),
        log |-> acc.log]

\* ------------------------------------------------------------------ parser

\* the one element of a set: Only({e(x) : x \in {v}}) is e with x standing
\* for the value of v, computed once
Only(S) == CHOOSE x \in S : TRUE

\* nom's IResult: Ok((rest, val)), over a token list or over a string
Ok(rest, val) == [tag |-> "Ok", rest |-> rest, val |-> val]

\* nom::Err::Error (tag "Error", recoverable) and nom::Err::Failure (tag
\* "Failure") with their ParseError: msgs is the chain of a
\* ParseError::Message, the outermost context first, and <<>> is
\* ParseError::Internal
Err(tag, msgs) == [tag |-> tag, msgs |-> msgs]

\* Context for IResult: Internal becomes the message, a Message gets it as
\* its new outermost context
context(res, message) ==
    IF res.tag = "Ok" THEN res ELSE [res EXCEPT !.msgs = <<message>> \o @]

\* nom's cut: a recoverable Error becomes a Failure
cut(res) == IF res.tag = "Error" THEN Err("Failure", res.msgs) ELSE res

\* nom's all_consuming: Ok only when nothing is left
all_consuming(res) ==
    IF res.tag = "Ok" /\ Len(res.rest) > 0 THEN Err("Error", <<>>) ELSE res

\* nom's char(c)
char(c, s) ==
    IF Len(s) > 0 /\ Head(s) = c THEN Ok(Tail(s), c) ELSE Err("Error", <<>>)

\* c is an ASCII digit
IsDigit(c) == \E d \in 1..10 : SubSeq(Digits, d, d) = c

\* the number of digits s starts with
RECURSIVE DigitCount(_)
DigitCount(s) ==
    IF Len(s) > 0 /\ IsDigit(Head(s)) THEN 1 + DigitCount(Tail(s)) ELSE 0

\* str::parse::<usize> of a string of digits (the tokens modelled stay far
\* below usize::MAX, where parse fails)
RECURSIVE parse_usize(_)
parse_usize(s) ==
    IF Len(s) = 0 THEN 0
    ELSE parse_usize(SubSeq(s, 1, Len(s) - 1)) * 10
         + ((CHOOSE d \in 1..10 : SubSeq(Digits, d, d) = SubSeq(s, Len(s), Len(s))) - 1)

\* usize: map_res(digit1, parse)
usize(s) ==
    Only({ IF n = 0 THEN Err("Error", <<>>)
           ELSE Ok(SubSeq(s, n + 1, Len(s)), parse_usize(SubSeq(s, 1, n))) :
           n \in {DigitCount(s)} })

\* nom's opt applied to the result res of a parser on s
opt(res, s) ==
    IF res.tag = "Ok" THEN Ok(res.rest, Some(res.val)) ELSE Ok(s, None)

\* field_id: a number, or (-number)
field_id(s) ==
    Only({ IF u.tag = "Ok" THEN Ok(u.rest, FieldInt(u.val))
           ELSE IF char("(", s).tag = "Ok" /\ char("-", Tail(s)).tag = "Ok"
           THEN Only({ IF n.tag = "Ok" /\ char(")", n.rest).tag = "Ok"
                       THEN Ok(Tail(n.rest), FromLast(n.val))
                       ELSE Err("Error", <<>>) :
                       n \in {usize(Tail(Tail(s)))} })
           ELSE Err("Error", <<>>) :
           u \in {usize(s)} })

\* the parser of a range's bounds: usize in lines_atom, field_id in
\* fields_atom
Bound(kind, s) == IF kind = "Lines" THEN usize(s) ELSE field_id(s)

\* separated_pair(opt(bound), char('-'), opt(bound)) mapped to OpenRange::new
OpenRangeOf(kind, s) ==
    Only({ IF char("-", a.rest).tag = "Ok"
           THEN Only({ Ok(b.rest, OpenRange(a.val, b.val)) :
                       b \in {opt(Bound(kind, Tail(a.rest)), Tail(a.rest))} })
           ELSE Err("Error", <<>>) :
           a \in {opt(Bound(kind, s), s)} })

\* fields_atom: a range of field ids, else one field id
fields_atom(s) ==
    Only({ IF r.tag = "Ok" THEN Ok(r.rest, FieldsRange(r.val))
           ELSE Only({ IF f.tag = "Ok" THEN Ok(f.rest, FieldsSingle(f.val)) ELSE f :
                       f \in {field_id(s)} }) :
           r \in {OpenRangeOf("Fields", s)} })

\* lines_atom: a range of numbers, else one number
lines_atom(s) ==
    Only({ IF r.tag = "Ok" THEN Ok(r.rest, LinesRange(r.val))
           ELSE Only({ IF u.tag = "Ok" THEN Ok(u.rest, LinesSingle(u.val)) ELSE u :
                       u \in {usize(s)} }) :
           r \in {OpenRangeOf("Lines", s)} })

\* the element parser of the list of a lines or of a fields argument
ListAtom(kind, s) == IF kind = "Lines" THEN lines_atom(s) ELSE fields_atom(s)

\* the loop of separated_list0 after the first element: stops, keeping what
\* it has, before a separator that no element follows
RECURSIVE SeparatedLoop(_, _, _)
SeparatedLoop(kind, s, res) ==
    Only({ IF e.tag = "Ok" THEN SeparatedLoop(kind, e.rest, Append(res, e.val))
           ELSE Ok(s, res) :
           e \in {IF char(",", s).tag = "Ok" THEN ListAtom(kind, Tail(s))
                  ELSE Err("Error", <<>>)} })

\* separated_list0(char(','), lines_atom or fields_atom)
separated_list0(kind, s) ==
    Only({ IF e.tag = "Ok" THEN SeparatedLoop(kind, e.rest, <<e.val>>)
           ELSE Ok(s, <<>>) :
           e \in {ListAtom(kind, s)} })

\* the characters with a meaning in the regex syntax
MetaChars == "\\.+*?()|[]{}^$"

IsMeta(c) == \E k \in 1..Len(MetaChars) : SubSeq(MetaChars, k, k) = c

\* c occurs in s
Occurs(c, s) == \E k \in 1..Len(s) : SubSeq(s, k, k) = c

\* the literal a pattern p without its anchor stands for, after the literal lit
\* of what came before p: an escaped
\* metacharacter stands for itself; a trailing backslash, a group or class
\* that is never closed and a closing parenthesis are syntax errors; every
\* other use of a metacharacter is outside the patterns modelled
RECURSIVE Literal(_, _)
Literal(p, lit) ==
    IF Len(p) = 0 THEN [why |-> "ok", lit |-> lit]
    ELSE IF Head(p) = "\\"
         THEN IF Len(p) = 1 THEN [why |-> "syntax"]
              ELSE IF IsMeta(SubSeq(p, 2, 2))
                   THEN Literal(SubSeq(p, 3, Len(p)), lit \o SubSeq(p, 2, 2))
                   ELSE [why |-> "unmodelled"]
    ELSE IF Head(p) = "("
         THEN IF Occurs(")", Tail(p)) THEN [why |-> "unmodelled"] ELSE [why |-> "syntax"]
    ELSE IF Head(p) = "["
         THEN IF Occurs("]", Tail(p)) THEN [why |-> "unmodelled"] ELSE [why |-> "syntax"]
    ELSE IF Head(p) = ")" THEN [why |-> "syntax"]
    ELSE IF IsMeta(Head(p)) THEN [why |-> "unmodelled"]
    ELSE Literal(Tail(p), lit \o Head(p))

\* the pattern input without a leading ^
Unanchored(input) ==
    IF Len(input) > 0 /\ Head(input) = "^" THEN Tail(input) ELSE input

\* input is a pattern the model of Regex covers: a non-empty literal with or
\* without ^, or a pattern with one of the syntax errors of Literal
Modelled(input) ==
    \E l \in {Literal(Unanchored(input), "")} :
       l.why = "syntax" \/ (l.why = "ok" /\ Len(l.lit) > 0)

\* the message of regex::Error::Syntax for the pattern input
SyntaxMessage(input) == "regex parse error: " \o input

\* regex: Regex::new on the whole token, consuming it; a regex::Error becomes
\* a recoverable Error with the regex crate's message
regex(input) ==
    Only({ IF l.why = "ok"
           THEN Ok("", Regex(Len(input) > 0 /\ Head(input) = "^", l.lit))
           ELSE Err("Error", <<SyntaxMessage(input)>>) :
           l \in {Literal(Unanchored(input), "")} })

\* arg: the context "Invalid argument: <token>" around a parser's result
ArgContext(input, res) == context(res, "Invalid argument: " \o input)

\* next: the first token, Missing argument when there is none
next(input) ==
    IF input = <<>> THEN Err("Error", <<"Missing argument">>)
    ELSE Ok(Tail(input), Head(input))

\* next.and_then(arg(regex))
NextRegex(input) ==
    IF input = <<>> THEN next(input)
    ELSE Only({ IF r.tag = "Ok" THEN Ok(Tail(input), r.val) ELSE r :
                r \in {ArgContext(Head(input), regex(Head(input)))} })

\* next.and_then(arg(all_consuming(separated_list0(char(','), atom)))) of
\* lines and of fields
NextList(kind, input) ==
    IF input = <<>> THEN next(input)
    ELSE Only({ IF r.tag = "Ok" THEN Ok(Tail(input), r.val) ELSE r :
                r \in {ArgContext(Head(input),
                                  all_consuming(separated_list0(kind, Head(input))))} })

\* Parser::and of next.and_then(arg(regex)) with a second parser: next for
\* the replacement of sub and gsub (second = "text"), next.and_then(arg(regex))
\* for the end pattern of the range commands
RegexAnd(second, input) ==
    Only({ IF a.tag # "Ok" THEN a
           ELSE Only({ IF b.tag = "Ok" THEN Ok(b.rest, <<a.val, b.val>>) ELSE b :
                       b \in {IF second = "text" THEN next(a.rest)
                              ELSE NextRegex(a.rest)} }) :
           a \in {NextRegex(input)} })

\* the keywords of each command of parse_args
Aliases(kind) ==
    CASE kind = "Enumeration" -> {"enumerate", "enum", "e", "#"}
      [] kind = "Filter" -> {"filter", "f"}
      [] kind = "Match" -> {"match", "m"}
      [] kind = "Sub" -> {"sub", "s"}
      [] kind = "Gsub" -> {"gsub", "gs"}
      [] kind = "MatchRange" -> {"match-range", "mr"}
      [] kind = "FilterRange" -> {"filter-range", "fr"}
      [] kind = "Lines" -> {"lines", "line", "l"}
      [] kind = "Fields" -> {"fields", "F"}

\* the parser each command of parse_args hands to command()
Arguments(kind, input) ==
    CASE kind = "Enumeration" -> Ok(input, NewEnumeration)
      [] kind = "Filter" ->
           LET r == NextRegex(input)
           IN IF r.tag = "Ok" THEN Ok(r.rest, NewFilter(r.val)) ELSE r
      [] kind = "Match" ->
           LET r == NextRegex(input)
           IN IF r.tag = "Ok" THEN Ok(r.rest, NewMatch(r.val)) ELSE r
      [] kind = "Sub" ->
           LET r == RegexAnd("text", input)
           IN IF r.tag = "Ok" THEN Ok(r.rest, NewSub(r.val[1], r.val[2])) ELSE r
      [] kind = "Gsub" ->
           LET r == RegexAnd("text", input)
           IN IF r.tag = "Ok" THEN Ok(r.rest, NewGsub(r.val[1], r.val[2])) ELSE r
      [] kind = "MatchRange" ->
           LET r == RegexAnd("regex", input)
           IN IF r.tag = "Ok" THEN Ok(r.rest, NewMatchRange(r.val[1], r.val[2])) ELSE r
      [] kind = "FilterRange" ->
           LET r == RegexAnd("regex", input)
           IN IF r.tag = "Ok" THEN Ok(r.rest, NewFilterRange(r.val[1], r.val[2])) ELSE r
      [] kind = "Lines" ->
           LET r == NextList(kind, input)
           IN IF r.tag = "Ok" THEN Ok(r.rest, NewLines(r.val)) ELSE r
      [] kind = "Fields" ->
           LET r == NextList(kind, input)
           IN IF r.tag = "Ok" THEN Ok(r.rest, NewFields(r.val)) ELSE r

\* command with a keyword check that also accepts any token that starts
\* with a keyword
commandPrefixKeyword(kind, input) ==
    LET n == next(input)
    IN IF n.tag # "Ok" THEN n
       ELSE IF \A a \in Aliases(kind) :
                 ~(Len(a) <= Len(n.val) /\ SubSeq(n.val, 1, Len(a)) = a)
            THEN Err("Error", <<>>)
       ELSE context(cut(Arguments(kind, n.rest)),
                    "Failed parsing arguments of '" \o n.val \o "'")

\* command without cut: a failure in the arguments stays recoverable
commandNoCut(kind, input) ==
    LET n == next(input)
    IN IF n.tag # "Ok" THEN n
       ELSE IF n.val \notin Aliases(kind) THEN Err("Error", <<>>)
       ELSE context(Arguments(kind, n.rest),
                    "Failed parsing arguments of '" \o n.val \o "'")

\* command: verify(next, matches.contains), then the cut argument parser
\* under the context naming the keyword
command(kind, input) ==
    LET n == next(input)
    IN IF n.tag # "Ok" THEN n
       ELSE IF n.val \notin Aliases(kind) THEN Err("Error", <<>>)
       ELSE context(cut(Arguments(kind, n.rest)),
                    "Failed parsing arguments of '" \o n.val \o "'")

\* the commands in the order parse_args gives them to alt
CommandKinds ==
    << "Enumeration", "Fields", "Filter", "Lines", "FilterRange", "Gsub",
       "Match", "MatchRange", "Sub" >>

\* the closure that ends the alternatives of parse_args
Unrecognized(input) ==
    IF input # <<>>
    THEN Err("Failure", <<"Not a recognized keyword: " \o Head(input)>>)
    ELSE Err("Error", <<>>)

\* alt whose last alternative skips a token that is no keyword
RECURSIVE altSkipsUnknown(_, _)
altSkipsUnknown(input, k) ==
    IF k > Len(CommandKinds)
    THEN IF input # <<>> THEN altSkipsUnknown(Tail(input), 1) ELSE Unrecognized(input)
    ELSE Only({ IF r.tag = "Error" THEN altSkipsUnknown(input, k + 1) ELSE r :
                r \in {command(CommandKinds[k], input)} })

\* nom's alt from the k-th alternative on: the first result that is not a
\* recoverable Error
RECURSIVE alt(_, _)
alt(input, k) ==
    IF k > Len(CommandKinds) THEN Unrecognized(input)
    ELSE Only({ IF r.tag = "Error" THEN alt(input, k + 1) ELSE r :
                r \in {command(CommandKinds[k], input)} })

\* nom's many0 over alt: collects units until a recoverable Error, passes a
\* Failure on, and fails on a parser that consumes nothing
RECURSIVE many0(_, _)
many0(input, acc) ==
    Only({ IF r.tag = "Error" THEN Ok(input, acc)
           ELSE IF r.tag = "Failure" THEN r
           ELSE IF Len(r.rest) = Len(input) THEN Err("Error", <<>>)
           ELSE many0(r.rest, Append(acc, r.val)) :
           r \in {alt(input, 1)} })

\* parse_args: all_consuming(many0(alt(..))), finish, Program::new; the ?
\* turns a ParseError into its message chain, Internal into Internal error
parse_args(input) ==
    Only({ IF r.tag = "Ok" THEN [ok |-> TRUE, program |-> r.val]
           ELSE [ok |-> FALSE,
                 error |-> IF r.msgs = <<>> THEN <<"Internal error">> ELSE r.msgs] :
           r \in {all_consuming(many0(input, <<>>))} })

\* ------------------------------------------------------------------ inputs

\* tests::LINE1 .. LINE8
LINE1 == ""

LINE2 == "[Header 1]"

LINE3 == "key1 = header1_value1"

LINE4 == "key2 = header1_value2"

LINE5 == ""

LINE6 == "[Header 2]"

LINE7 == "key1 = header2_value1"

LINE8 == "key2 = header2_value2"

\* tests::INI_FILE, line by line
INI_FILE == <<LINE1, LINE2, LINE3, LINE4, LINE5, LINE6, LINE7, LINE8>>

\* the patterns of tests::test_make_filter_from: ^\[Header 1 and ^\[
HeaderStart == Regex(TRUE, "[Header 1")

HeaderEnd == Regex(TRUE, "[")

\* the patterns of tests::test_make_match: ^x: .* matches what ^x: matches
XStart == Regex(TRUE, "x: ")

Test2End == Regex(FALSE, "test2")

\* the lines a free input stream of Spec is made of
Alphabet == {LINE2, LINE3, LINE6}

\* the line selection 1,3,5-6,8- written with open ranges
LineSpec ==
    << LinesRange(OpenRange(None, Some(1))),
       LinesSingle(3),
       LinesRange(OpenRange(Some(5), Some(6))),
       LinesRange(OpenRange(Some(8), None)) >>

\* the units Init builds pipelines from
EngineUnits ==
    { NewEnumeration,
      NewLines(LineSpec),
      NewFilter(HeaderEnd),
      NewMatch(Regex(FALSE, "key1")),
      NewFilterRange(HeaderStart, HeaderEnd),
      NewMatchRange(HeaderStart, HeaderEnd) }

\* Program::new over every unit sequence of at most MaxUnits units
Pipelines == UNION {[1..n -> EngineUnits] : n \in 0..MaxUnits}

\* the sequences of t (the calls of the logs, the tokens of the pieces) put
\* one after the other
RECURSIVE Flatten(_)
Flatten(t) ==
    IF t = <<>> THEN <<>> ELSE Flatten(SubSeq(t, 1, Len(t) - 1)) \o t[Len(t)]

\* h is a prefix of the sequence full
IsPrefix(h, full) == Len(h) <= Len(full) /\ SubSeq(full, 1, Len(h)) = h

\* the input streams: the INI file of the tests, and every sequence of at
\* most MaxLines lines of alphabet
ValidInput(h, alphabet) ==
    \/ IsPrefix(h, INI_FILE)
    \/ Len(h) <= MaxLines /\ \A k \in 1..Len(h) : h[k] \in alphabet

\* ------------------------------------------------------------------ main loop

\* main's loop body with a line printed for every input line, an empty one
\* for None
RunLinePrintsNone(line, alphabet) ==
    /\ pc = "run"
    /\ ValidInput(Append(hist, line), alphabet)
    /\ \E r \in {ProgramRun(program, line)} :
          /\ program' = r.atoms
          /\ results' = IF r.panicked THEN results ELSE Append(results, r.res)
          /\ trace' = Append(trace, r.log)
          /\ stdout' = IF r.panicked THEN stdout
                       ELSE Append(stdout, IF r.res.some THEN r.res.val ELSE "")
          /\ pc' = IF r.panicked THEN "panicked" ELSE pc
    /\ hist' = Append(hist, line)
    /\ UNCHANGED <<commands, error, overflow_checks>>

\* the body of main's loop over input.lines(): program.run(line) for the
\* next input line, and println! of a Some result; a panic in program.run
\* ends the process with nothing returned or printed for the line
RunLine(line, alphabet) ==
    /\ pc = "run"
    /\ ValidInput(Append(hist, line), alphabet)
    /\ \E r \in {ProgramRun(program, line)} :
          /\ program' = r.atoms
          /\ results' = IF r.panicked THEN results ELSE Append(results, r.res)
          /\ trace' = Append(trace, r.log)
          /\ stdout' = IF r.res.some THEN Append(stdout, r.res.val) ELSE stdout
          /\ pc' = IF r.panicked THEN "panicked" ELSE pc
    /\ hist' = Append(hist, line)
    /\ UNCHANGED <<commands, error, overflow_checks>>

\* nothing read, run or printed yet
NothingRun ==
    /\ hist = <<>>
    /\ results = <<>>
    /\ trace = <<>>
    /\ stdout = <<>>
    /\ error = <<>>

\* a pipeline built by Program::new, as the tests of program.rs build it,
\* about to read its input
Init ==
    /\ program \in Pipelines
    /\ commands = <<>>
    /\ pc = "run"
    /\ NothingRun
    /\ overflow_checks \in BOOLEAN

\* the lines of tests::INI_FILE
IniLines == {INI_FILE[k] : k \in 1..Len(INI_FILE)}

Next == \E line \in Alphabet \cup IniLines : RunLine(line, Alphabet)

Spec == Init /\ [][Next]_vars

\* ------------------------------------------------------------------ one unit

\* the lines a free input stream of SpecUnit is made of: lines of the tests
\* and lines with leading, trailing and repeated spaces
UnitAlphabet == {"", LINE2, "1 2 3 4 5 6 7", " a  b ", "x: test1", "yx: test2"}

\* tests::test_fields: fields 3-(-2),1
TestFieldSpec ==
    << FieldsRange(OpenRange(Some(FieldInt(3)), Some(FromLast(2)))),
       FieldsSingle(FieldInt(1)) >>

\* the field selection (-9)-2
BeyondFirstSpec ==
    << FieldsRange(OpenRange(Some(FromLast(9)), Some(FieldInt(2)))) >>

\* the field selections (-1), (-3)-2,-(-9),8-, (-9)-2 and (-9),1-(-9)
OtherFieldSpecs ==
    { << FieldsSingle(FromLast(1)) >>,
      << FieldsRange(OpenRange(Some(FromLast(3)), Some(FieldInt(2)))),
         FieldsRange(OpenRange(None, Some(FromLast(9)))),
         FieldsRange(OpenRange(Some(FieldInt(8)), None)) >>,
      BeyondFirstSpec,
      << FieldsSingle(FromLast(9)),
         FieldsRange(OpenRange(Some(FieldInt(1)), Some(FromLast(9)))) >> }

\* the units InitUnit runs alone
UnitConfigs ==
    { NewEnumeration,
      NewLines(LineSpec),
      NewFilter(XStart),
      NewMatch(XStart),
      NewFilterRange(HeaderStart, HeaderEnd),
      NewFilterRange(XStart, Test2End),
      NewMatchRange(HeaderStart, HeaderEnd),
      NewMatchRange(XStart, Test2End),
      NewSub(Regex(FALSE, " "), "_"),
      NewGsub(Regex(FALSE, " "), "_") }
    \cup {NewFields(fs) : fs \in {TestFieldSpec} \cup OtherFieldSpecs}

\* Program::new over one unit
InitUnit ==
    /\ program \in {<<u>> : u \in UnitConfigs}
    /\ commands = <<>>
    /\ pc = "run"
    /\ NothingRun
    /\ overflow_checks \in BOOLEAN

NextUnit == \E line \in UnitAlphabet \cup IniLines : RunLine(line, UnitAlphabet)

SpecUnit == InitUnit /\ [][NextUnit]_vars

\* ------------------------------------------------------------------ main

\* one command each way of writing it, per keyword of parse_args
GoodPieces ==
    {<<a>> : a \in Aliases("Enumeration")}
    \cup {<<a, "^\\[">> : a \in Aliases("Filter")}
    \cup {<<a, "key1">> : a \in Aliases("Match")}
    \cup {<<a, "key", "k">> : a \in Aliases("Sub")}
    \cup {<<a, "e", "E">> : a \in Aliases("Gsub")}
    \cup {<<a, "^\\[Header 1", "^\\[">> : a \in Aliases("MatchRange")}
    \cup {<<a, "^\\[Header 1", "^\\[">> : a \in Aliases("FilterRange")}
    \cup {<<a, "-1,3,5-6,8-">> : a \in Aliases("Lines")}
    \cup {<<a, "3-(-2),1">> : a \in Aliases("Fields")}

\* token runs that are no command: unknown and misspelt keywords, missing
\* arguments, malformed patterns, malformed line and field lists; and runs
\* that are one only when read at the right place
OddPieces ==
    { <<"bogus">>, <<"Filter", "key1">>, <<"key1">>, <<"f">>, <<"f", "(">>,
      <<"m", "[a">>, <<"s", "key">>, <<"gs", "a)", "x">>, <<"mr", "key1">>,
      <<"fr", "key1", "k\\">>, <<"l", "1,">>, <<"line", "2-x">>, <<"F", "(1)">>,
      <<"fields", "1-2-3">>, <<"f", "f">>, <<"l", "">>, <<"F", "-">> }

Pieces == GoodPieces \cup OddPieces

\* the pieces that the longer prog arguments are mostly made of
CorePieces ==
    { <<"e">>, <<"f", "^\\[">>, <<"mr", "^\\[Header 1", "^\\[">>,
      <<"l", "-1,3,5-6,8-">>, <<"bogus">>, <<"f", "(">>, <<"s", "key">>, <<"f">> }

\* the runs of at most MaxCommands pieces with at most one piece, at any
\* place, that is not of CorePieces
PieceRuns ==
    UNION {{f \in [1..n -> Pieces] :
              Cardinality({k \in 1..n : f[k] \notin CorePieces}) <= 1} :
           n \in 0..MaxCommands}

\* the prog arguments main is started with
TokenLists == {Flatten(f) : f \in PieceRuns}

\* the lines a free input stream of SpecMain is made of
MainAlphabet == {LINE3}

\* main's parse_args(&commands)? that goes on with an empty pipeline when
\* parse_args fails
ParseArgsIgnoresError ==
    /\ pc = "parse"
    /\ \E r \in {parse_args(commands)} :
          /\ program' = IF r.ok THEN r.program ELSE <<>>
          /\ pc' = "run"
          /\ error' = IF r.ok THEN <<>> ELSE r.error
    /\ UNCHANGED <<hist, results, trace, commands, stdout, overflow_checks>>

\* main's let mut program = parse::parse_args(&commands)?
ParseArgs ==
    /\ pc = "parse"
    /\ \E r \in {parse_args(commands)} :
          IF r.ok
          THEN program' = r.program /\ pc' = "run" /\ error' = <<>>
          ELSE program' = program /\ pc' = "failed" /\ error' = r.error
    /\ UNCHANGED <<hist, results, trace, commands, stdout, overflow_checks>>

\* main after clap has collected the prog arguments into commands
InitMain ==
    /\ commands \in TokenLists
    /\ program = <<>>
    /\ pc = "parse"
    /\ NothingRun
    /\ overflow_checks \in BOOLEAN

NextMain ==
    \/ ParseArgs
    \/ \E line \in MainAlphabet \cup IniLines : RunLine(line, MainAlphabet)

SpecMain == InitMain /\ [][NextMain]_vars

\* ------------------------------------------------------------------ long inputs

\* the counter of an Enumeration that has numbered a long run of lines: the
\* last two values below 2^31 and the last two values of a u32
LateCounters == {2147483646, 2147483647, U32_MAX - 1, U32_MAX}

\* pipelines with an Enumeration deep into a long input: alone, behind a
\* Filter whose pattern every line so far has matched, before a Match, and
\* behind a FilterRange inside or just past a long block
LatePipelines ==
    UNION { { <<e>>,
              <<NewFilter(XStart), e>>,
              <<e, NewMatch(Test2End)>>,
              <<NewFilterRange(XStart, Test2End), e>>,
              <<[NewFilterRange(XStart, Test2End) EXCEPT !.state = "Inside"], e>> }
            : e \in {[NewEnumeration EXCEPT !.current_line = c] : c \in LateCounters} }

\* the lines a long input goes on with
LateAlphabet == {LINE3, "x: test1", "yx: test2"}

\* main in its loop, many lines into its input; hist, results, trace and
\* stdout record what happens from here on
InitLate ==
    /\ program \in LatePipelines
    /\ commands = <<>>
    /\ pc = "run"
    /\ NothingRun
    /\ overflow_checks \in BOOLEAN

NextLate == \E line \in LateAlphabet : RunLine(line, LateAlphabet)

SpecLate == InitLate /\ [][NextLate]_vars

\* ------------------------------------------------------------------ trace

\* number of lines processed so far
N == Len(hist)

\* the calls the latest Program::run made
LastLog == trace[N]

\* e records a run of the unit at position pos
IsRun(e, pos) == e.op = "run" /\ e.pos = pos

\* e records a reset of the unit at position pos
IsReset(e, pos) == e.op = "reset" /\ e.pos = pos

\* e records a run that returned an Output with the given tag
Returned(e, tag) == e.op = "run" /\ e.ret.tag = tag

\* ------------------------------------------------------------------ C1

\* C1: in the latest Program::run, once a unit has returned Return(x) no later
\* run is made and the call returns x; without a short-circuit the call returns
\* Some of the line the last unit's Resume/ResetAndResume carries; an empty
\* pipeline returns Some of the input line
C1_ShortCircuit ==
    N > 0 =>
      LET log == LastLog
          short == {k \in 1..Len(log) : Returned(log[k], "Return")}
          runs == {k \in 1..Len(log) : log[k].op = "run"}
      IN /\ \A k \in short :
              /\ \A m \in runs : m <= k
              /\ results[N] = log[k].ret.opt
         /\ short = {} =>
              IF program = <<>> THEN results[N] = Some(hist[N])
              ELSE \E k \in runs :
                      /\ log[k].pos = Len(program)
                      /\ \A m \in runs : m <= k
                      /\ log[k].ret.tag \in {"Resume", "ResetAndResume"}
                      /\ results[N] = Some(log[k].ret.val)

\* a unit that is not the last one short-circuited with a line, which the call returned
C1_Witness ==
    /\ N > 0
    /\ \E k \in 1..Len(LastLog) :
          /\ Returned(LastLog[k], "Return")
          /\ LastLog[k].pos < Len(program)
          /\ LastLog[k].ret.opt.some
          /\ results[N] = LastLog[k].ret.opt

\* ------------------------------------------------------------------ C2

\* C2: when the unit at position i returns ResetAndResume, the same call resets
\* every unit at a position > i, run or skipped, before any run of that unit,
\* and resets no unit at a position <= i afterwards
C2_ResetDownstream ==
    N > 0 =>
      LET log == LastLog
      IN \A k \in 1..Len(log) :
            Returned(log[k], "ResetAndResume") =>
              /\ \A j \in (log[k].pos + 1)..Len(program) :
                    \E m \in (k + 1)..Len(log) :
                       /\ IsReset(log[m], j)
                       /\ \A m2 \in 1..Len(log) : IsRun(log[m2], j) => m < m2
              /\ \A m \in (k + 1)..Len(log) :
                    log[m].op = "reset" => log[m].pos > log[k].pos

\* the first unit signalled a reset, the second short-circuited, and the third
\* was reset without being run
C2_Witness ==
    /\ N > 0
    /\ Len(program) = 3
    /\ \E k \in 1..Len(LastLog) : IsRun(LastLog[k], 1) /\ Returned(LastLog[k], "ResetAndResume")
    /\ \E k \in 1..Len(LastLog) : IsRun(LastLog[k], 2) /\ Returned(LastLog[k], "Return")
    /\ \E k \in 1..Len(LastLog) : IsReset(LastLog[k], 3)
    /\ \A k \in 1..Len(LastLog) : ~IsRun(LastLog[k], 3)

\* ------------------------------------------------------------------ C3

\* the calls made on the unit at position pos in the logs t, in order
EventsAt(t, pos) == SelectSeq(Flatten(t), LAMBDA e : e.pos = pos)

\* the unit as its constructor builds it from the same arguments
Fresh(atom) ==
    CASE atom.kind = "Enumeration" -> NewEnumeration
      [] atom.kind = "Lines" -> NewLines(atom.lines)
      [] atom.kind = "FilterRange" -> NewFilterRange(atom.start, atom.end)
      [] atom.kind = "MatchRange" -> NewMatchRange(atom.start, atom.end)
      [] OTHER -> atom

\* C3: every reset of a call follows a ResetAndResume that a unit at a lower
\* position returned in that same call (none is left pending from the previous
\* line, a last unit's signal resets nothing), and each unit enters the call in
\* the state the previous call left it in (its constructed state at first)
C3_CallIsolation ==
    N > 0 =>
      LET log == LastLog
      IN /\ \A m \in 1..Len(log) :
               log[m].op = "reset" =>
                 \E k \in 1..(m - 1) :
                    Returned(log[k], "ResetAndResume") /\ log[k].pos < log[m].pos
         /\ \A j \in 1..Len(program) :
               LET before == EventsAt(SubSeq(trace, 1, N - 1), j)
                   now == EventsAt(<<log>>, j)
                   start == IF before = <<>> THEN Fresh(program[j])
                            ELSE before[Len(before)].post
               IN IF now = <<>> THEN program[j] = start
                  ELSE now[1].pre = start /\ program[j] = now[Len(now)].post

\* the previous line ended with a ResetAndResume of the last unit, this line
\* caused no reset, and a counter carried its value 1 into this line
C3_Witness ==
    /\ N > 1
    /\ \E k \in 1..Len(trace[N - 1]) :
          Returned(trace[N - 1][k], "ResetAndResume") /\ trace[N - 1][k].pos = Len(program)
    /\ LastLog # <<>>
    /\ \A k \in 1..Len(LastLog) : LastLog[k].op = "run"
    /\ \E k \in 1..Len(LastLog) :
          /\ LastLog[k].pre.kind \in {"Lines", "Enumeration"}
          /\ LastLog[k].pre.current_line = 1
          /\ LastLog[k].post.current_line = 2

\* ------------------------------------------------------------------ C4

\* the line number at which the block holding line n of h starts, 0 when line n
\* is in no block: a block starts at a line that matches start and is in no
\* block open before it, and stays open until a later line matches end
RECURSIVE BlockStartOf(_, _, _, _)
BlockStartOf(h, n, start, end) ==
    IF n = 0 THEN 0
    ELSE LET p == BlockStartOf(h, n - 1, start, end)
             open == p # 0 /\ ~(n - 1 > p /\ is_match(end, h[n - 1]))
         IN IF open THEN p
            ELSE IF is_match(start, h[n]) THEN n ELSE 0

\* C4: a FilterRange run alone from its initial state passes a line if and only
\* if the line is in a block (the start line is not tested against end), and
\* drops it otherwise; of the 8 INI lines it passes lines 2 to 6
C4_FilterRangeBlocks ==
    (N > 0 /\ Len(program) = 1 /\ program[1].kind = "FilterRange") =>
      /\ results[N] = IF BlockStartOf(hist, N, program[1].start, program[1].end) # 0
                      THEN Some(hist[N]) ELSE None
      /\ (hist = INI_FILE /\ program[1].start = HeaderStart) =>
            results = << None, Some(LINE2), Some(LINE3), Some(LINE4), Some(LINE5),
                         Some(LINE6), None, None >>

\* the FilterRange of the tests has read the whole INI file
C4_Witness ==
    /\ hist = INI_FILE
    /\ Len(program) = 1
    /\ program[1].kind = "FilterRange"
    /\ program[1].start = HeaderStart
    /\ program[1].end = HeaderEnd

\* ------------------------------------------------------------------ C5

\* the unit atom after its run on each line of h, in order
RECURSIVE AfterLines(_, _)
AfterLines(atom, h) ==
    IF h = <<>> THEN atom
    ELSE AtomRun(AfterLines(atom, SubSeq(h, 1, Len(h) - 1)), h[Len(h)]).atom

\* the range unit of the other kind with the patterns of atom
OtherRange(atom) ==
    IF atom.kind = "FilterRange" THEN NewMatchRange(atom.start, atom.end)
    ELSE NewFilterRange(atom.start, atom.end)

\* C5: after the same lines a MatchRange and a FilterRange with the same
\* patterns are in the same block state, and on each line they return the same
\* Output, except on a line seen Outside that does not match start, where
\* FilterRange returns Return(None) and MatchRange Return(Some(line)); a
\* MatchRange alone returns every line unchanged
C5_MatchRangeLikeFilterRange ==
    (N > 0 /\ Len(program) = 1 /\ program[1].kind \in {"FilterRange", "MatchRange"}) =>
      LET e == LastLog[1]
          other == AtomRun(AfterLines(OtherRange(program[1]), SubSeq(hist, 1, N - 1)),
                           hist[N])
          f == IF program[1].kind = "FilterRange" THEN e.ret ELSE other.out
          m == IF program[1].kind = "MatchRange" THEN e.ret ELSE other.out
      IN /\ Len(LastLog) = 1
         /\ e.post.state = other.atom.state
         /\ IF e.pre.state = "Outside" /\ ~is_match(e.pre.start, hist[N])
            THEN f = Return(None) /\ m = Return(Some(hist[N]))
            ELSE f = m
         /\ program[1].kind = "MatchRange" => results[N] = Some(hist[N])
         /\ (hist = INI_FILE /\ program[1].kind = "MatchRange") =>
               results = [k \in 1..8 |-> Some(INI_FILE[k])]

\* the MatchRange of the tests has read the whole INI file, leaving the block
\* at line 6
C5_Witness ==
    /\ hist = INI_FILE
    /\ Len(program) = 1
    /\ program[1].kind = "MatchRange"
    /\ program[1].start = HeaderStart
    /\ \E k \in 1..Len(trace[6]) : Returned(trace[6][k], "Resume")
    /\ \E k \in 1..Len(trace[7]) : Returned(trace[7][k], "Return")

\* ------------------------------------------------------------------ C6

\* the units atoms after Program::run on each line of h, in order
RECURSIVE ProgramAfter(_, _)
ProgramAfter(atoms, h) ==
    IF h = <<>> THEN atoms
    ELSE ProgramRun(ProgramAfter(atoms, SubSeq(h, 1, Len(h) - 1)), h[Len(h)]).atoms

\* the calls in which the first unit returned an Output with the given tag
FirstUnitReturned(tag) ==
    {c \in 1..N : \E k \in 1..Len(trace[c]) :
                     IsRun(trace[c][k], 1) /\ Returned(trace[c][k], tag)}

\* the line at which the block of the first unit that holds the latest line
\* started, 0 when the latest line is in no block
CurrentBlockStart ==
    LET starts == FirstUnitReturned("ResetAndResume")
        b == IF starts = {} THEN 0 ELSE CHOOSE c \in starts : \A d \in starts : d <= c
    IN IF b # 0 /\ (b + 1)..N \subseteq FirstUnitReturned("Resume") THEN b ELSE 0

\* C6: in a pipeline of a range unit followed by the units T, on every line of
\* a block the states of T and the returned line are those of freshly
\* constructed units T fed the lines of the block from its start line on
C6_DownstreamRestart ==
    (N > 0 /\ program # <<>> /\ program[1].kind \in {"FilterRange", "MatchRange"}
       /\ CurrentBlockStart # 0) =>
      LET b == CurrentBlockStart
          T == [j \in 1..(Len(program) - 1) |-> Fresh(program[j + 1])]
          last == ProgramRun(ProgramAfter(T, SubSeq(hist, b, N - 1)), hist[N])
      IN /\ Tail(program) = last.atoms
         /\ results[N] = last.res

\* a second block starts at the third line and resets a downstream counter
\* that had counted two lines of the first block
C6_Witness ==
    /\ N = 3
    /\ Len(program) > 1
    /\ program[1].kind \in {"FilterRange", "MatchRange"}
    /\ CurrentBlockStart = 3
    /\ \E k \in 1..Len(LastLog) :
          /\ LastLog[k].op = "reset"
          /\ LastLog[k].pre.kind \in {"Enumeration", "Lines"}
          /\ LastLog[k].pre.current_line = 2
          /\ program[LastLog[k].pos].current_line = 1

\* ------------------------------------------------------------------ C7

\* the number of run calls at the end of the calls ev, after the last reset
TrailingRuns(ev) ==
    LET resets == {k \in 1..Len(ev) : ev[k].op = "reset"}
    IN IF resets = {} THEN Len(ev)
       ELSE Len(ev) - (CHOOSE k \in resets : \A m \in resets : m <= k)

\* the decimal numeral of k, for 1 <= k <= 99
Numeral(k) ==
    LET d(n) == SubSeq("0123456789", n + 1, n + 1)
    IN IF k < 10 THEN d(k) ELSE d(k \div 10) \o d(k % 10)

\* C7: an Enumeration returns Resume("<k> <line>"), k being the number of its
\* runs since its construction or latest reset, this one included; alone it
\* numbers the lines 1, 2, ..., and it never short-circuits
C7_EnumerationCounts ==
    N > 0 =>
      /\ \A k \in 1..Len(LastLog) :
            (LastLog[k].op = "run" /\ LastLog[k].pre.kind = "Enumeration") =>
              LastLog[k].ret =
                Resume(Numeral(TrailingRuns(EventsAt(trace, LastLog[k].pos)))
                         \o " " \o LastLog[k].arg)
      /\ program = <<[kind |-> "Enumeration", current_line |-> N]>> =>
            results[N] = Some(Numeral(N) \o " " \o hist[N])
      /\ (Len(program) = 1 /\ program[1].kind = "Enumeration" /\ hist = INI_FILE) =>
            results[8] = Some("8 key2 = header2_value2")

\* an Enumeration that had counted lines was reset and numbered this line 1
C7_Witness ==
    /\ N > 0
    /\ \E k, m \in 1..Len(LastLog) :
          /\ k < m
          /\ LastLog[k].op = "reset"
          /\ LastLog[k].pre.kind = "Enumeration"
          /\ LastLog[k].pre.current_line > 0
          /\ IsRun(LastLog[m], LastLog[k].pos)
          /\ LastLog[m].ret = Resume("1 " \o LastLog[m].arg)

\* ------------------------------------------------------------------ C8

\* the line selection atoms selects line number k
Selected(atoms, k) ==
    \E a \in 1..Len(atoms) :
       \/ atoms[a].tag = "Single" /\ atoms[a].n = k
       \/ /\ atoms[a].tag = "Range"
          /\ (atoms[a].range.lower_bound.some => atoms[a].range.lower_bound.val <= k)
          /\ (atoms[a].range.upper_bound.some => k <= atoms[a].range.upper_bound.val)

\* C8: the counter of a Lines unit is the number of its runs since its
\* construction or latest reset; a run returns Resume(line) if and only if an
\* atom selects the counter after the increment, else Return(None); a line
\* that an earlier unit short-circuited leaves the counter as it was, or at 0
\* when the unit was reset on that line
C8_LinesSelects ==
    N > 0 =>
      \A j \in 1..Len(program) :
         program[j].kind = "Lines" =>
           LET ev == EventsAt(trace, j)
               before == EventsAt(SubSeq(trace, 1, N - 1), j)
               count == TrailingRuns(ev)
           IN /\ program[j].current_line = count
              /\ \A k \in 1..Len(LastLog) :
                    IsRun(LastLog[k], j) =>
                      /\ LastLog[k].post.current_line = LastLog[k].pre.current_line + 1
                      /\ LastLog[k].post.current_line = count
                      /\ LastLog[k].ret = IF Selected(LastLog[k].pre.lines, count)
                                          THEN Resume(LastLog[k].arg) ELSE Return(None)
                      /\ LastLog[k].pre.lines = LineSpec =>
                            (LastLog[k].ret.tag = "Resume"
                               <=> (count \in {1, 3, 5, 6} \/ count >= 8))
              /\ (\E k \in 1..Len(LastLog) :
                     Returned(LastLog[k], "Return") /\ LastLog[k].pos < j) =>
                   program[j].current_line =
                     IF \E k \in 1..Len(LastLog) : IsReset(LastLog[k], j) THEN 0
                     ELSE IF before = <<>> THEN 0
                     ELSE before[Len(before)].post.current_line

\* a Lines unit that had counted a line kept its counter on a line an earlier
\* unit short-circuited
C8_Witness ==
    /\ N > 1
    /\ \E j \in 2..Len(program) :
          /\ program[j].kind = "Lines"
          /\ program[j].current_line > 0
          /\ \A k \in 1..Len(LastLog) : LastLog[k].pos # j
          /\ \E k \in 1..Len(LastLog) :
                Returned(LastLog[k], "Return") /\ LastLog[k].pos < j

\* ------------------------------------------------------------------ C9

\* C9: a Filter and a Match of the same pattern return Resume(line) on the same
\* lines, those the pattern matches; on the others Filter returns Return(None)
\* and Match Return(Some(line)); a run or reset leaves either unit as it was,
\* and a unit reset or run before answers as a new one does
C9_FilterLikeMatch ==
    N > 0 =>
      \A k \in 1..Len(LastLog) :
         LastLog[k].pre.kind \in {"Filter", "Match"} =>
           LET e == LastLog[k]
               f == FilterRun(NewFilter(e.pre.regex), e.arg).out
               m == MatchRun(NewMatch(e.pre.regex), e.arg).out
           IN /\ e.post = e.pre
              /\ e.op = "run" =>
                   /\ e.ret = IF e.pre.kind = "Filter" THEN f ELSE m
                   /\ f.tag = "Resume" <=> m.tag = "Resume"
                   /\ f.tag = "Resume" <=> is_match(e.pre.regex, e.arg)
                   /\ IF f.tag = "Resume"
                      THEN f = Resume(e.arg) /\ m = Resume(e.arg)
                      ELSE f = Return(None) /\ m = Return(Some(e.arg))
                   /\ (e.pre.regex = HeaderEnd /\ e.arg \in {LINE2, LINE6}) =>
                         f.tag = "Resume"
                   /\ (e.pre.regex = HeaderEnd /\ e.arg \in {LINE1, LINE3, "1 [Header 1]"}) =>
                         f.tag = "Return"

\* on one line a Filter was reset and passed the line, and a Match after it
\* short-circuited with the line
C9_Witness ==
    /\ N > 0
    /\ \E k, m, n \in 1..Len(LastLog) :
          /\ k < m /\ m < n
          /\ LastLog[k].op = "reset"
          /\ LastLog[k].pre.kind = "Filter"
          /\ IsRun(LastLog[m], LastLog[k].pos)
          /\ Returned(LastLog[m], "Resume")
          /\ LastLog[n].pre.kind = "Match"
          /\ LastLog[n].op = "run"
          /\ LastLog[n].ret = Return(Some(hist[N]))

\* ------------------------------------------------------------------ C10

\* the character of s at position i
CharAt(s, i) == SubSeq(s, i, i)

\* the positions of s at which a field starts: a non-space at the start of s
\* or after a space
FieldStarts(s) ==
    {i \in 1..Len(s) : CharAt(s, i) # " " /\ (i = 1 \/ CharAt(s, i - 1) = " ")}

\* the q-th smallest element of the set of numbers K
Nth(K, q) == CHOOSE p \in K : Cardinality({x \in K : x <= p}) = q

\* the field of s that starts at position i: up to the next space or the end
FieldFrom(s, i) ==
    LET ends == {e \in i..Len(s) : e = Len(s) \/ CharAt(s, e + 1) = " "}
    IN SubSeq(s, i, Nth(ends, 1))

\* the fields of s, in order
WordsOf(s) ==
    [q \in 1..Cardinality(FieldStarts(s)) |-> FieldFrom(s, Nth(FieldStarts(s), q))]

\* the position a field index stands for on a line of n fields
Resolve(id, n) ==
    IF id.tag = "Int" THEN id.i
    ELSE IF id.i <= n + 1 THEN n + 1 - id.i ELSE 0

\* the field selection atoms keeps position p of a line of n fields
Kept(atoms, p, n) ==
    \E a \in 1..Len(atoms) :
       \/ atoms[a].tag = "Single" /\ p = Resolve(atoms[a].id, n)
       \/ /\ atoms[a].tag = "Range"
          /\ (atoms[a].range.lower_bound.some =>
                Resolve(atoms[a].range.lower_bound.val, n) <= p)
          /\ (atoms[a].range.upper_bound.some =>
                p <= Resolve(atoms[a].range.upper_bound.val, n))

\* s has no space at its start or end and no two spaces in a row
SingleSpaced(s) ==
    /\ s # "" => CharAt(s, 1) # " " /\ CharAt(s, Len(s)) # " "
    /\ \A i \in 1..(Len(s) - 1) : ~(CharAt(s, i) = " " /\ CharAt(s, i + 1) = " ")

\* C10: Fields::run returns Resume of the fields of the line whose 1-based
\* position some atom contains (from-last indices resolved against the number
\* of fields), in their order, joined by single spaces, also when none is
\* kept; fields 3-(-2),1 of "1 2 3 4 5 6 7" are "1 3 4 5 6"
C10_FieldsSelects ==
    (N > 0 /\ Len(program) = 1 /\ program[1].kind = "Fields") =>
      LET e == LastLog[1]
          words == WordsOf(hist[N])
          n == Len(words)
          keep == {p \in 1..n : Kept(program[1].atoms, p, n)}
      IN /\ Len(LastLog) = 1
         /\ e.op = "run"
         /\ e.ret.tag = "Resume"
         /\ results[N] = Some(e.ret.val)
         /\ SingleSpaced(e.ret.val)
         /\ WordsOf(e.ret.val) = [q \in 1..Cardinality(keep) |-> words[Nth(keep, q)]]
         /\ (program[1].atoms = TestFieldSpec /\ hist[N] = "1 2 3 4 5 6 7") =>
               e.ret = Resume("1 3 4 5 6")

\* the Fields unit of tests::test_fields has selected from the line of the test
C10_Witness ==
    /\ N > 0
    /\ program = <<NewFields(TestFieldSpec)>>
    /\ hist[N] = "1 2 3 4 5 6 7"
    /\ results[N] = Some("1 3 4 5 6")

\* ------------------------------------------------------------------ C16

\* the Output a range unit returns for a line outside a block
OutsideReturn(atom, line) ==
    IF atom.kind = "FilterRange" THEN Return(None) ELSE Return(Some(line))

C18_EmitterAlsoReset ==
    N > 0 =>
      \A k \in 1..Len(LastLog) :
         Returned(LastLog[k], "ResetAndResume") =>
           \E m \in (k + 1)..Len(LastLog) : IsReset(LastLog[m], LastLog[k].pos)

\* C18 (amended): a unit that returned ResetAndResume is not touched again in
\* that call and ends it Inside; the reset reaches exactly the units at the
\* positions after it, each after the emitting unit's run
C18_EmitterNotReset ==
    N > 0 =>
      \A k \in 1..Len(LastLog) :
         Returned(LastLog[k], "ResetAndResume") =>
           LET i == LastLog[k].pos
           IN /\ \A m \in (k + 1)..Len(LastLog) : LastLog[m].pos > i
              /\ program[i] = LastLog[k].post
              /\ program[i].state = "Inside"
              /\ \A j \in (i + 1)..Len(program) :
                    \E m \in (k + 1)..Len(LastLog) : IsReset(LastLog[m], j)

\* a range unit with units after it returned ResetAndResume, and a unit after
\* it was reset
C18_Witness ==
    /\ N > 0
    /\ \E k \in 1..Len(LastLog) :
          /\ Returned(LastLog[k], "ResetAndResume")
          /\ LastLog[k].pos < Len(program)
          /\ \E m \in (k + 1)..Len(LastLog) : LastLog[m].op = "reset"

\* ------------------------------------------------------------------ C19

\* C19: a range unit whose run in the latest Program::run took it from
\* Outside to Inside is Inside when the call returns, and no unit is reset
\* after its own run in that call
C19_EntryKept ==
    N > 0 =>
      \A k \in 1..Len(LastLog) :
         LastLog[k].op = "run" =>
           /\ \A m \in (k + 1)..Len(LastLog) : LastLog[m].pos # LastLog[k].pos
           /\ (/\ LastLog[k].pre.kind \in {"FilterRange", "MatchRange"}
               /\ LastLog[k].pre.state = "Outside"
               /\ LastLog[k].post.state = "Inside")
                 => program[LastLog[k].pos].state = "Inside"

\* a range unit behind another unit was reset in a call, then entered a block
\* in that call, and is Inside afterwards
C19_Witness ==
    /\ N > 0
    /\ \E k \in 2..Len(LastLog) :
          /\ LastLog[k].op = "run"
          /\ LastLog[k].pos > 1
          /\ LastLog[k].pre.kind \in {"FilterRange", "MatchRange"}
          /\ LastLog[k].pre.state = "Outside"
          /\ LastLog[k].post.state = "Inside"
          /\ \E m \in 1..(k - 1) : IsReset(LastLog[m], LastLog[k].pos)
          /\ program[LastLog[k].pos].state = "Inside"

\* ------------------------------------------------------------------ C20

\* the unit at position j as it was when the latest Program::run began
Before(j) ==
    LET ev == EventsAt(SubSeq(trace, 1, N - 1), j)
    IN IF ev = <<>> THEN Fresh(program[j]) ELSE ev[Len(ev)].post

\* C20: when the unit at position i returned Return in the latest
\* Program::run, no unit after i was run; if no unit before i returned
\* ResetAndResume in that call the units after i are as they were before the
\* call, and otherwise each of them was reset and nothing else
C20_SkippedUnitsKept ==
    N > 0 =>
      \A k \in 1..Len(LastLog) :
         Returned(LastLog[k], "Return") =>
           LET i == LastLog[k].pos
               signalled == \E m \in 1..(k - 1) :
                               Returned(LastLog[m], "ResetAndResume")
           IN \A j \in (i + 1)..Len(program) :
                 LET ev == SelectSeq(LastLog, LAMBDA e : e.pos = j)
                 IN IF signalled
                    THEN /\ Len(ev) = 1
                         /\ ev[1].op = "reset"
                         /\ ev[1].pre = Before(j)
                         /\ program[j] = AtomReset(Before(j))
                    ELSE /\ ev = <<>>
                         /\ program[j] = Before(j)

\* a unit returned Return with no ResetAndResume before it, and a unit after it
\* keeps a state that is not its constructed one
C20_Witness ==
    /\ N > 1
    /\ \E k \in 1..Len(LastLog) :
          /\ Returned(LastLog[k], "Return")
          /\ \A m \in 1..(k - 1) : ~Returned(LastLog[m], "ResetAndResume")
          /\ \E j \in (LastLog[k].pos + 1)..Len(program) :
                /\ program[j] # Fresh(program[j])
                /\ program[j] # AtomReset(program[j])
                /\ program[j] = Before(j)

\* ------------------------------------------------------------------ C11

\* the command each keyword stands for, as the usage lists them
KeywordKind(tok) ==
    CASE tok \in {"enumerate", "enum", "e", "#"} -> "Enumeration"
      [] tok \in {"filter", "f"} -> "Filter"
      [] tok \in {"match", "m"} -> "Match"
      [] tok \in {"sub", "s"} -> "Sub"
      [] tok \in {"gsub", "gs"} -> "Gsub"
      [] tok \in {"match-range", "mr"} -> "MatchRange"
      [] tok \in {"filter-range", "fr"} -> "FilterRange"
      [] tok \in {"lines", "line", "l"} -> "Lines"
      [] tok \in {"fields", "F"} -> "Fields"
      [] OTHER -> "none"

\* the number of argument tokens of a command
Arity(kind) ==
    CASE kind = "Enumeration" -> 0
      [] kind \in {"Filter", "Match", "Lines", "Fields"} -> 1
      [] kind \in {"Sub", "Gsub", "MatchRange", "FilterRange"} -> 2

\* tok is a well-formed j-th argument of a command of this kind: a pattern
\* that compiles, a list of line or field items, any replacement text
WellFormedArg(kind, j, tok) ==
    CASE kind \in {"Filter", "Match"} -> regex(tok).tag = "Ok"
      [] kind \in {"Sub", "Gsub"} -> j = 2 \/ regex(tok).tag = "Ok"
      [] kind \in {"MatchRange", "FilterRange"} -> regex(tok).tag = "Ok"
      [] kind \in {"Lines", "Fields"} ->
           all_consuming(separated_list0(kind, tok)).tag = "Ok"

\* the unit a command of this kind with these well-formed arguments stands
\* for, in its constructed state
UnitOf(kind, args) ==
    CASE kind = "Enumeration" -> NewEnumeration
      [] kind = "Filter" -> NewFilter(regex(args[1]).val)
      [] kind = "Match" -> NewMatch(regex(args[1]).val)
      [] kind = "Sub" -> NewSub(regex(args[1]).val, args[2])
      [] kind = "Gsub" -> NewGsub(regex(args[1]).val, args[2])
      [] kind = "MatchRange" -> NewMatchRange(regex(args[1]).val, regex(args[2]).val)
      [] kind = "FilterRange" -> NewFilterRange(regex(args[1]).val, regex(args[2]).val)
      [] kind = "Lines" -> NewLines(separated_list0(kind, args[1]).val)
      [] kind = "Fields" -> NewFields(separated_list0(kind, args[1]).val)

\* the token list read left to right as commands: status "ok" with the units
\* when it splits into well-formed commands; "unknown" at the first token in
\* keyword position that is no keyword; "badargs" at the first keyword whose
\* arguments are malformed or missing (missing = TRUE).  token is the token in
\* keyword position where reading stopped, examined the number of tokens read
\* up to and including the one that decided it
RECURSIVE Read(_)
Read(tokens) ==
    IF tokens = <<>> THEN [status |-> "ok", units |-> <<>>, examined |-> 0]
    ELSE LET kind == KeywordKind(Head(tokens))
         IN IF kind = "none"
            THEN [status |-> "unknown", token |-> Head(tokens), examined |-> 1]
            ELSE LET n == Arity(kind)
                     present == IF Len(tokens) - 1 < n THEN Len(tokens) - 1 ELSE n
                     bad == {j \in 1..present : ~WellFormedArg(kind, j, tokens[j + 1])}
                 IN IF bad # {}
                    THEN [status |-> "badargs", token |-> Head(tokens), missing |-> FALSE,
                          examined |-> 1 + CHOOSE j \in bad : \A i \in bad : j <= i]
                    ELSE IF present < n
                    THEN [status |-> "badargs", token |-> Head(tokens), missing |-> TRUE,
                          examined |-> Len(tokens)]
                    ELSE LET r == Read(SubSeq(tokens, n + 2, Len(tokens)))
                             r2 == [r EXCEPT !.examined = @ + n + 1]
                         IN IF r.status = "ok"
                            THEN [r2 EXCEPT !.units =
                                    <<UnitOf(kind, SubSeq(tokens, 2, n + 1))>> \o @]
                            ELSE r2

\* main has dealt with parse_args and has not read a line yet
Parsed == pc # "parse" /\ hist = <<>>

\* C11: when the token list holds, in keyword position, a token that is no
\* keyword (first or after well-formed commands), parse_args fails with the
\* one message Not a recognized keyword: <token> and no Program is made
C11_UnknownKeywordFatal ==
    Parsed =>
      \A r \in {Read(commands)} :
         r.status = "unknown" =>
           /\ pc = "failed"
           /\ error = <<"Not a recognized keyword: " \o r.token>>
           /\ program = <<>>

\* parse_args failed on a token that is no keyword and follows a well-formed
\* command
C11_Witness ==
    /\ pc = "failed"
    /\ Read(commands).status = "unknown"
    /\ Read(commands).examined > 1
    /\ error = <<"Not a recognized keyword: " \o commands[Read(commands).examined]>>

\* ------------------------------------------------------------------ C12

\* s starts with the string p
StartsWith(s, p) == Len(p) <= Len(s) /\ SubSeq(s, 1, Len(p)) = p

\* C12: when a keyword's arguments are malformed or missing, parse_args
\* fails with the outermost context Failed parsing arguments of '<keyword>',
\* then Invalid argument: <token> or Missing argument; no message says the
\* keyword is unrecognized, and the tokens after the failing one do not
\* matter
C12_BadArgumentsFatal ==
    Parsed =>
      \A r \in {Read(commands)} :
         r.status = "badargs" =>
           /\ pc = "failed"
           /\ program = <<>>
           /\ Len(error) >= 2
           /\ error[1] = "Failed parsing arguments of '" \o r.token \o "'"
           /\ error[2] = IF r.missing THEN "Missing argument"
                         ELSE "Invalid argument: " \o commands[r.examined]
           /\ \A k \in 1..Len(error) : ~StartsWith(error[k], "Not a recognized keyword")
           /\ \E p \in {parse_args(SubSeq(commands, 1, r.examined))} :
                 ~p.ok /\ p.error = error

\* parse_args failed on a malformed argument that follows a well-formed
\* command and is followed by further tokens
C12_Witness ==
    /\ pc = "failed"
    /\ Read(commands).status = "badargs"
    /\ ~Read(commands).missing
    /\ Read(commands).examined \in 3..(Len(commands) - 1)
    /\ Len(error) = 3
    /\ error[1] = "Failed parsing arguments of '" \o Read(commands).token \o "'"

\* ------------------------------------------------------------------ C13

\* C13: parse_args succeeds exactly when the token list splits into
\* well-formed commands, and then the pipeline is the units of these commands
\* in order, as constructed; the empty token list gives the empty pipeline
C13_ParseSucceedsOnCommands ==
    Parsed =>
      \A r \in {Read(commands)} :
         /\ pc = "run" <=> r.status = "ok"
         /\ pc = "run" => /\ program = r.units
                          /\ error = <<>>
                          /\ \A j \in 1..Len(program) : program[j] = Fresh(program[j])
         /\ commands = <<>> => pc = "run" /\ program = <<>>

\* parse_args made the pipeline of the line and field selections of the tests
\* from the short keywords
C13_Witness ==
    /\ pc = "run"
    /\ hist = <<>>
    /\ commands = <<"l", "-1,3,5-6,8-", "F", "3-(-2),1">>
    /\ program = <<NewLines(LineSpec), NewFields(TestFieldSpec)>>

\* ------------------------------------------------------------------ C14

\* C14: when parse_args has failed main has its error, and no line was read,
\* run or printed and no unit exists; no line is read before parse_args, and
\* lines are only read by a main without error
C14_NoRunAfterFailure ==
    /\ pc = "failed" => /\ error # <<>>
                        /\ program = <<>>
                        /\ hist = <<>> /\ results = <<>> /\ trace = <<>>
                        /\ stdout = <<>>
    /\ pc = "parse" => hist = <<>> /\ stdout = <<>> /\ error = <<>>
    /\ hist # <<>> => pc = "run" /\ error = <<>>

\* main failed on a token list that starts with a well-formed command
C14_Witness ==
    /\ pc = "failed"
    /\ error # <<>>
    /\ stdout = <<>>
    /\ Len(commands) > 1
    /\ parse_args(SubSeq(commands, 1, 1)).ok

\* ------------------------------------------------------------------ C15

\* the values of the Some results among rs, in order
RECURSIVE SomeValues(_)
SomeValues(rs) ==
    IF rs = <<>> THEN <<>>
    ELSE SomeValues(SubSeq(rs, 1, Len(rs) - 1))
         \o (IF rs[Len(rs)].some THEN <<rs[Len(rs)].val>> ELSE <<>>)

\* C15: each line read has exactly one result, the latest one that of
\* Program::run on the pipeline as parse_args made it and the lines before
\* left it; the output is the values of the Some results in input order, so
\* never longer than the input
C15_OutputInInputOrder ==
    pc = "run" =>
      /\ Len(results) = N
      /\ Len(trace) = N
      /\ stdout = SomeValues(results)
      /\ Len(stdout) <= N
      /\ N > 0 =>
           \E r \in {ProgramRun(ProgramAfter(parse_args(commands).program,
                                            SubSeq(hist, 1, N - 1)), hist[N])} :
              /\ results[N] = r.res
              /\ program = r.atoms

\* a parsed pipeline of two units has read three lines and printed some
\* but not all of them
C15_Witness ==
    /\ pc = "run"
    /\ commands # <<>>
    /\ Len(program) >= 2
    /\ N >= 3
    /\ Len(stdout) \in 1..(N - 1)
    /\ stdout = SomeValues(results)

\* ------------------------------------------------------------------ C21

\* the field indices the atoms of a field selection are written with
IdsOf(atoms) ==
    UNION { IF atoms[a].tag = "Single" THEN {atoms[a].id}
            ELSE {b.val : b \in {c \in {atoms[a].range.lower_bound,
                                        atoms[a].range.upper_bound} : c.some}}
            : a \in 1..Len(atoms) }

\* the number of fields of the line a lone Fields unit has just run on
LastCount == Len(WordsOf(hist[N]))

\* C21: against the field count last of the line a Fields unit runs on,
\* to_usize gives i for Int(i), whatever the count, and for FromLast(i) gives
\* last + 1 - i when i <= last + 1 and 0 otherwise, never a number below 0;
\* FromLast(1) is the last field, FromLast(2) the one before it and
\* FromLast(last) field 1
C21_ToUsizeResolves ==
    (N > 0 /\ Len(program) = 1 /\ program[1].kind = "Fields") =>
       /\ \A id \in IdsOf(program[1].atoms) :
             /\ id.tag = "Int" =>
                   \A l \in 0..LastCount : to_usize(id, l) = id.i
             /\ (id.tag = "FromLast" /\ id.i <= LastCount + 1) =>
                   to_usize(id, LastCount) = LastCount + 1 - id.i
             /\ (id.tag = "FromLast" /\ id.i > LastCount + 1) =>
                   to_usize(id, LastCount) = 0
             /\ to_usize(id, LastCount) >= 0
       /\ to_usize(FromLast(1), LastCount) = LastCount
       /\ LastCount >= 1 =>
             /\ to_usize(FromLast(2), LastCount) = LastCount - 1
             /\ to_usize(FromLast(LastCount), LastCount) = 1

\* a Fields unit written with a from-last index beyond the first field and
\* one within the line has run on a line that has fields
C21_Witness ==
    /\ N > 0
    /\ Len(program) = 1
    /\ program[1].kind = "Fields"
    /\ LastCount >= 1
    /\ \E id, jd \in IdsOf(program[1].atoms) :
          /\ id.tag = "FromLast" /\ id.i > LastCount + 1
          /\ jd.tag = "FromLast" /\ jd.i <= LastCount
          /\ to_usize(id, LastCount) = 0
          /\ to_usize(jd, LastCount) >= 1

\* ------------------------------------------------------------------ C22

\* id is a from-last index that lies before the first of n fields
BeyondFirst(id, n) == id.tag = "FromLast" /\ id.i > n + 1

\* the optional bound b of a range is a from-last index before the first of
\* n fields
BoundBeyondFirst(b, n) == b.some /\ BeyondFirst(b.val, n)

\* atom is written with a from-last index before the first of n fields
UsesBeyondFirst(atom, n) ==
    IF atom.tag = "Single" THEN BeyondFirst(atom.id, n)
    ELSE \/ BoundBeyondFirst(atom.range.lower_bound, n)
         \/ BoundBeyondFirst(atom.range.upper_bound, n)

\* the fields of the last line at the positions in keep, in order
FieldsAt(keep) ==
    [q \in 1..Cardinality(keep) |-> WordsOf(hist[N])[Nth(keep, q)]]

\* C22 as stated: an atom written with a from-last index that lies before the
\* first field of the line contains no position of the line, whether the
\* index is a Single atom or the lower or the upper bound of a Range atom
C22_BeyondFirstSelectsNothing ==
    (N > 0 /\ Len(program) = 1 /\ program[1].kind = "Fields") =>
       \A a \in 1..Len(program[1].atoms) :
          UsesBeyondFirst(program[1].atoms[a], LastCount) =>
             \A p \in 1..LastCount :
                ~FieldsAtomContains(program[1].atoms[a], p, LastCount)

\* C22: a from-last index that lies before the first field of the line
\* selects no position as a Single atom or as the upper bound of a Range
\* atom; as the lower bound of a Range atom it excludes no position, the
\* range then holds every position up to its upper bound; so (-9)-2 keeps
\* the first two fields of the line
C22_BeyondFirstClamps ==
    (N > 0 /\ Len(program) = 1 /\ program[1].kind = "Fields") =>
       /\ \A a \in 1..Len(program[1].atoms) :
             LET atom == program[1].atoms[a]
             IN \A p \in 1..LastCount :
                   /\ (atom.tag = "Single" /\ BeyondFirst(atom.id, LastCount)) =>
                         ~FieldsAtomContains(atom, p, LastCount)
                   /\ (atom.tag = "Range"
                         /\ BoundBeyondFirst(atom.range.upper_bound, LastCount)) =>
                         ~FieldsAtomContains(atom, p, LastCount)
                   /\ (atom.tag = "Range"
                         /\ BoundBeyondFirst(atom.range.lower_bound, LastCount)
                         /\ ~BoundBeyondFirst(atom.range.upper_bound, LastCount)) =>
                         (FieldsAtomContains(atom, p, LastCount) <=>
                            (atom.range.upper_bound.some =>
                               p <= Resolve(atom.range.upper_bound.val, LastCount)))
       /\ (\A a \in 1..Len(program[1].atoms) :
              /\ UsesBeyondFirst(program[1].atoms[a], LastCount)
              /\ program[1].atoms[a].tag = "Range" =>
                    BoundBeyondFirst(program[1].atoms[a].range.upper_bound, LastCount)) =>
             results[N] = Some("")
       /\ program[1].atoms = BeyondFirstSpec =>
             /\ results[N].some
             /\ WordsOf(results[N].val) = FieldsAt({p \in 1..LastCount : p <= 2})

\* the Fields unit (-9)-2 has kept fields of a line that has fields
C22_Witness ==
    /\ N > 0
    /\ program = <<NewFields(BeyondFirstSpec)>>
    /\ LastCount >= 1
    /\ UsesBeyondFirst(program[1].atoms[1], LastCount)
    /\ results[N].some
    /\ results[N].val # ""

\* ------------------------------------------------------------------ C23

\* C23: no run ends in a panic: every run of a unit returns an Output, and
\* a run of an Enumeration leaves its counter one higher, never back at 0
C23_RunsTotalCountersExact ==
    /\ pc # "panicked"
    /\ N > 0 =>
          \A k \in 1..Len(LastLog) :
             LastLog[k].op = "run" =>
                /\ LastLog[k].ret.tag \in {"Resume", "ResetAndResume", "Return"}
                /\ LastLog[k].pre.kind = "Enumeration" =>
                      LastLog[k].post.current_line # 0

====
